---- MODULE Spec2Model ----
(***************************************************************************)
(* XK-12 joystick programs: the HID report decoder (parse_joystick), the   *)
(* arcade game of g.py and the shooter of invaders.py, as state machines.  *)
(*                                                                         *)
(* These specifications share the module:                                  *)
(*   SpecNormalize  the axis normalization functions applied to a raw byte;  *)
(*   SpecDecode   parse_joystick of g.py and of invaders.py applied to a   *)
(*                stream of reports (the two latches side by side);        *)
(*   Spec         g.py: reader thread, queue, one tick of the main loop;   *)
(*   SpecShooter  invaders.py: reader thread, queue, Game.run's loop;      *)
(*   SpecThreads  the two threads of g.py, p.py, game.py and invaders.py   *)
(*                from start to shutdown, the simulation left out;         *)
(*   SpecThreadsFair  SpecThreads with fair scheduling of both threads.    *)
(* Variables of a program that a specification does not run keep their     *)
(* initial value.                                                          *)
(***************************************************************************)
EXTENDS Integers, Sequences, FiniteSets, TLC

VARIABLES
    \* ---- decoder harness (SpecDecode)
    button_states,      \* g.py main: button_states, the latch of parse_joystick
    pressed_buttons,    \* g.py parse_joystick: pressed_buttons of the last decode
    s_button_states,    \* invaders.py JoystickHandler.button_states
    s_pressed_buttons,  \* invaders.py parse_joystick: pressed_buttons of the last decode
    last_report,        \* history: the report decoded last
    prev_report,        \* history: the report decoded before it
    ndecodes,           \* history: number of decodes so far
    \* ---- g.py (Spec)
    data_queue,         \* main: data_queue, the reports put and not yet got
    world,              \* the globals player, foods, enemies, game_over
    mpc,                \* main thread: "events" (top of the while loop) or "input"
                        \* (inside handle_joystick_input's while loop)
    ticks,              \* iterations of main's while loop completed
    produced,           \* reports the reader thread has read
    tick_log,           \* history of the current / last iteration (see NewLog)
    \* ---- invaders.py (SpecShooter)
    s_data_queue,       \* JoystickHandler.data_queue
    game,               \* the Game object and its Player (see Game_init)
    s_produced,         \* reports the reader thread has read
    s_reader,           \* the reader thread: "running", or "failed" once device.read
                        \* has raised
    s_log,              \* history of the last iteration of Game.run (see ShooterLog)
    \* ---- axis normalization (SpecNormalize)
    raw_value,          \* the raw axis byte, data[6], data[7] or data[8]
    normalized,         \* what the normalization functions return for it (see Normalize)
    \* ---- the threads of one of the four programs (SpecThreads)
    variant,            \* the program: "g", "p", "game" or "invaders"
    stop_event,         \* threading.Event: is_set()
    device,             \* the HID handle: "open" or "closed"
    running,            \* the main loop's flag (True forever in invaders.py)
    t_data_queue,       \* data_queue
    reader_pc,          \* device_read_thread: "test" (at the while condition), "read"
                        \* (calling device.read), "put" (holding a report), "ended"
    hand,               \* the report device.read returned, not yet put (0: none)
    reader_failed,      \* device.read raised in the read thread
    main_pc,            \* main thread: "events", "input", "rest", "set_stop", "join",
                        \* "close", "exit", "exited"
    t_reads,            \* history: non-empty reports device.read has returned; the
                        \* k-th of them is written k
    decoded,            \* history: the reports handed to parse_joystick, in order
    t_ticks,            \* iterations of the main loop completed
    \* ---- g.py adjust_zoom applied to one world (SpecZoom)
    zoom_case           \* [before, after, done]: the world adjust_zoom is called in
                        \* and, once done, the world it leaves

\* the variables each program owns
decodeHistory == <<last_report, prev_report, ndecodes>>

arcadeVars == <<data_queue, world, mpc, ticks, produced, tick_log>>

shooterVars == <<s_data_queue, game, s_produced, s_reader, s_log>>

normVars == <<raw_value, normalized>>

threadVars == <<variant, stop_event, device, running, t_data_queue, reader_pc, hand,
                reader_failed, main_pc, t_reads, decoded, t_ticks>>

zoomVars == <<zoom_case>>

vars == <<button_states, pressed_buttons, s_button_states, s_pressed_buttons,
          decodeHistory, arcadeVars, shooterVars, normVars, threadVars, zoomVars>>

(***************************************************************************)
(* Arithmetic helpers.  Python floats that the programs compute from bytes *)
(* are kept as exact fractions <<numerator, denominator>>.                 *)
(***************************************************************************)
Min(a, b) == IF a < b THEN a ELSE b

\* C's (int) conversion of a double, as pygame applies to a float assigned to a
\* Rect field: truncation toward zero.  den > 0.
TruncDiv(num, den) == IF num >= 0 THEN num \div den ELSE -((-num) \div den)

Range(s) == {s[i] : i \in DOMAIN s}

(***************************************************************************)
(* Reports.  A report is the byte list device.read(33) returns; only bytes *)
(* 2..8 are read by the programs, so a report is kept as bytes 0..8.       *)
(***************************************************************************)
Report(c0, c1, c2, c3, x, y, z) ==
    [i \in 0..8 |-> CASE i = 2 -> c0 [] i = 3 -> c1 [] i = 4 -> c2 [] i = 5 -> c3
                      [] i = 6 -> x [] i = 7 -> y [] i = 8 -> z [] OTHER -> 0]

\* byte_value & (1 << bit), as 0 or 1
BitOf(byte_value, bit) == (byte_value \div (2 ^ bit)) % 2

\* a table that numbers the buttons along the columns: column -> 3c+1, 3c+2, 3c+3
button_map_by_column ==
    [column \in 0..3 |-> <<3 * column + 1, 3 * column + 2, 3 * column + 3>>]

\* button_map of parse_joystick: column -> the button numbers of bits 0, 1, 2
button_map == [column \in 0..3 |->
                 CASE column = 0 -> <<1, 5, 9>>
                   [] column = 1 -> <<2, 6, 10>>
                   [] column = 2 -> <<3, 7, 11>>
                   [] column = 3 -> <<4, 8, 12>>]

\* normalize_joystick_value: the fraction it returns
normalize_joystick_value(value) ==
    IF value > 128 THEN <<value - 256, 128>> ELSE <<value, 127>>

\* g.py: normalize_y_axis delegates to normalize_joystick_value
normalize_y_axis(value) == normalize_joystick_value(value)

\* invaders.py: JoystickHandler.normalize_joystick_value
JoystickHandler_normalize_joystick_value(value) ==
    IF value > 128 THEN <<value - 256, 128>> ELSE <<value, 127>>

\* p.py: normalize_y_axis, the directional policy: 0..127 downward, else upward
p_normalize_y_axis(value) ==
    IF value >= 0 /\ value <= 127 THEN <<value - 127, 127>> ELSE <<255 - value, 128>>

Neg(q) == <<-q[1], q[2]>>

(***************************************************************************)
(* The button loop of parse_joystick: columns 0..3, bits 0..2 in order.    *)
(* k = 3 * column + bit counts the iterations done.  acc carries the       *)
(* latch and the pressed list.                                             *)
(***************************************************************************)
\* a decoder that reports a held button again at every decode
ButtonStepNoLatch(data, acc, column, bit) ==
    LET button_index == button_map[column][bit + 1] - 1
    IN  IF BitOf(data[2 + column], bit) = 1
        THEN [states  |-> [acc.states EXCEPT ![button_index] = "Pressed"],
              pressed |-> Append(acc.pressed, button_map[column][bit + 1])]
        ELSE IF acc.states[button_index] = "Pressed"
             THEN [acc EXCEPT !.states[button_index] = "Released"]
             ELSE acc

\* one iteration of the inner loop
ButtonStep(data, acc, column, bit) ==
    LET button_index == button_map[column][bit + 1] - 1
    IN  IF BitOf(data[2 + column], bit) = 1
        THEN IF acc.states[button_index] # "Pressed"
             THEN [states  |-> [acc.states EXCEPT ![button_index] = "Pressed"],
                   pressed |-> Append(acc.pressed, button_map[column][bit + 1])]
             ELSE acc
        ELSE IF acc.states[button_index] = "Pressed"
             THEN [acc EXCEPT !.states[button_index] = "Released"]
             ELSE acc

RECURSIVE ButtonLoop(_, _, _)
ButtonLoop(data, acc, k) ==
    IF k = 12 THEN acc
    ELSE ButtonLoop(data, ButtonStep(data, acc, k \div 3, k % 3), k + 1)

\* g.py parse_joystick(data, button_states): the latch after the call, the pressed
\* list it printed, and the three normalized axes it returns.
parse_joystick(data, states) ==
    LET acc == ButtonLoop(data, [states |-> states, pressed |-> <<>>], 0)
    IN  [button_states   |-> acc.states,
         pressed_buttons |-> acc.pressed,
         x |-> normalize_joystick_value(data[6]),
         y |-> Neg(normalize_y_axis(data[7])),
         z |-> Neg(normalize_joystick_value(data[8]))]

\* invaders.py JoystickHandler.parse_joystick(data): the same loop on
\* self.button_states; the axes are returned without sign change.
JoystickHandler_parse_joystick(data, states) ==
    LET acc == ButtonLoop(data, [states |-> states, pressed |-> <<>>], 0)
    IN  [button_states   |-> acc.states,
         pressed_buttons |-> acc.pressed,
         x |-> JoystickHandler_normalize_joystick_value(data[6]),
         y |-> JoystickHandler_normalize_joystick_value(data[7]),
         z |-> JoystickHandler_normalize_joystick_value(data[8])]

\* g.py main: button_states = [None] * 12
InitButtonStates == [i \in 0..11 |-> "None"]

\* invaders.py JoystickHandler.__init__: ['Released'] * 12
JoystickHandler_InitButtonStates == [i \in 0..11 |-> "Released"]

(***************************************************************************)
(* SpecDecode: a stream of reports decoded by both parse_joystick          *)
(* functions.                                                              *)
(***************************************************************************)
MaxDecodes == 3

\* the column bytes tried: each of the three button bits, all of them, and a byte
\* with a bit above them, in one column at a time; and two columns together
DecodeBytes == {0, 1, 2, 4, 7, 9}

DecodeReports ==
    {Report(IF c = 0 THEN v ELSE 0, IF c = 1 THEN v ELSE 0,
            IF c = 2 THEN v ELSE 0, IF c = 3 THEN v ELSE 0, 128, 128, 128) :
        c \in 0..3, v \in DecodeBytes}
    \cup {Report(1, 2, 0, 0, 128, 128, 128), Report(5, 0, 0, 4, 128, 128, 128)}

NoReport == Report(0, 0, 0, 0, 0, 0, 0)

\* the variables of g.py in a specification that does not run it
ArcadeIdle ==
    /\ data_queue = <<>>
    /\ world = <<>>
    /\ mpc = "off"
    /\ ticks = 0
    /\ produced = 0
    /\ tick_log = <<>>

\* the variables of invaders.py in a specification that does not run it
ShooterIdle ==
    /\ s_data_queue = <<>>
    /\ game = <<>>
    /\ s_produced = 0
    /\ s_reader = "off"
    /\ s_log = <<>>

\* the normalization harness in a specification that does not run it
NormIdle ==
    /\ raw_value = 0
    /\ normalized = [done |-> FALSE]

\* the threads in a specification that does not run them
ThreadsIdle ==
    /\ variant = "none"
    /\ stop_event = FALSE
    /\ device = "open"
    /\ running = TRUE
    /\ t_data_queue = <<>>
    /\ reader_pc = "off"
    /\ hand = 0
    /\ reader_failed = FALSE
    /\ main_pc = "off"
    /\ t_reads = 0
    /\ decoded = <<>>
    /\ t_ticks = 0

\* the zoom harness in a specification that does not run it
ZoomIdle == zoom_case = <<>>

\* the decode history in a specification that does not keep it
NoDecodeHistory ==
    /\ last_report = NoReport
    /\ prev_report = NoReport
    /\ ndecodes = 0

DecodeInit ==
    /\ button_states = InitButtonStates
    /\ s_button_states = JoystickHandler_InitButtonStates
    /\ pressed_buttons = <<>>
    /\ s_pressed_buttons = <<>>
    /\ last_report = NoReport
    /\ prev_report = NoReport
    /\ ndecodes = 0
    /\ ArcadeIdle
    /\ ShooterIdle
    /\ NormIdle
    /\ ThreadsIdle
    /\ ZoomIdle

\* one report handed to both decoders
Decode ==
    /\ ndecodes < MaxDecodes
    /\ \E data \in DecodeReports :
         LET g == parse_joystick(data, button_states)
             s == JoystickHandler_parse_joystick(data, s_button_states)
         IN  /\ button_states' = g.button_states
             /\ pressed_buttons' = g.pressed_buttons
             /\ s_button_states' = s.button_states
             /\ s_pressed_buttons' = s.pressed_buttons
             /\ prev_report' = last_report
             /\ last_report' = data
             /\ ndecodes' = ndecodes + 1
    /\ UNCHANGED <<arcadeVars, shooterVars, normVars, threadVars, zoomVars>>

DecodeNext == Decode

SpecDecode == DecodeInit /\ [][DecodeNext]_vars

\* the bit of button number b (1..12) in a report: column (b-1) % 4, bit (b-1) \div 4
ButtonBit(data, b) == BitOf(data[2 + ((b - 1) % 4)], (b - 1) \div 4)

\* C1: a button is in the pressed list of a decode exactly when its bit is 1 in the
\* decoded report and was 0 in the report decoded before (or there was none before):
\* one edge per physical press, none while held, a new one after a release.
C1_EdgeOncePerPress ==
    ndecodes > 0 =>
        \A b \in 1..12 :
            LET edge == ButtonBit(last_report, b) = 1 /\ ButtonBit(prev_report, b) = 0
            IN  /\ (b \in Range(pressed_buttons)) <=> edge
                /\ (b \in Range(s_pressed_buttons)) <=> edge

\* a button held over two decodes after a release and re-press earlier
C1_Witness ==
    /\ ndecodes = 3
    /\ ButtonBit(prev_report, 1) = 1
    /\ ButtonBit(last_report, 1) = 1
    /\ ~(1 \in Range(pressed_buttons))
    /\ ~(1 \in Range(s_pressed_buttons))
    /\ 5 \in Range(pressed_buttons)


\* a report with bits 3..7 of its four column bytes cleared
LowBits(data) == [i \in DOMAIN data |-> IF i \in 2..5 THEN data[i] % 8 ELSE data[i]]

\* C19: at every decode, for column c in 0..3 and bit b in 0..2, the latch entry
\* c + 4b (button c + 1 + 4b) is Pressed exactly when bit b of byte 2 + c of the
\* decoded report is 1, a button is in the pressed list only when its bit is 1,
\* and the decode gives the latch and the pressed list it gives for the same
\* report with bits 3..7 of the column bytes cleared.
C19_ColumnMajorTable ==
    [][ndecodes' = ndecodes + 1 =>
        /\ \A c \in 0..3, b \in 0..2 :
              LET on == BitOf(last_report'[2 + c], b) = 1
              IN  /\ (button_states'[c + 4 * b] = "Pressed") <=> on
                  /\ (s_button_states'[c + 4 * b] = "Pressed") <=> on
                  /\ (c + 1 + 4 * b) \in Range(pressed_buttons') => on
                  /\ (c + 1 + 4 * b) \in Range(s_pressed_buttons') => on
        /\ LET g == parse_joystick(LowBits(last_report'), button_states)
               s == JoystickHandler_parse_joystick(LowBits(last_report'), s_button_states)
           IN  /\ button_states' = g.button_states
               /\ pressed_buttons' = g.pressed_buttons
               /\ s_button_states' = s.button_states
               /\ s_pressed_buttons' = s.pressed_buttons]_vars

\* buttons 1, 9 and 12 were down, then a report with bits 0 and 3 of byte 2 set
\* was decoded: button 1 is still Pressed, 9 and 12 are Released, none is new
C19_Witness ==
    /\ ndecodes = 2
    /\ prev_report[2] = 5 /\ prev_report[5] = 4
    /\ last_report[2] = 9
    /\ button_states[0] = "Pressed" /\ s_button_states[0] = "Pressed"
    /\ button_states[8] = "Released" /\ button_states[11] = "Released"
    /\ pressed_buttons = <<>>

\* C20: the latch has the 12 entries 0..11 and each is Released or Pressed, in
\* g.py (and p.py, which builds its latch as g.py does) and in invaders.py.
C20_LatchDomain ==
    \A states \in {button_states, s_button_states} :
        /\ DOMAIN states = 0..11
        /\ \A i \in DOMAIN states : states[i] \in {"Released", "Pressed"}

\* invaders.py alone: its latch has 12 entries, each Released or Pressed
ShooterLatchDomain ==
    /\ DOMAIN s_button_states = 0..11
    /\ \A i \in DOMAIN s_button_states : s_button_states[i] \in {"Released", "Pressed"}

\* g.py alone: its latch has 12 entries, each None, Released or Pressed
ArcadeLatchDomain ==
    /\ DOMAIN button_states = 0..11
    /\ \A i \in DOMAIN button_states : button_states[i] \in {"None", "Released", "Pressed"}

(***************************************************************************)
(* SpecNormalize: the normalization functions applied to one raw byte, any *)
(* of the 256.                                                             *)
(***************************************************************************)
\* the values of a report byte
RawBytes == 0..255

NormalizeInit ==
    /\ raw_value \in RawBytes
    /\ normalized = [done |-> FALSE]
    /\ button_states = InitButtonStates
    /\ s_button_states = JoystickHandler_InitButtonStates
    /\ pressed_buttons = <<>>
    /\ s_pressed_buttons = <<>>
    /\ NoDecodeHistory
    /\ ArcadeIdle
    /\ ShooterIdle
    /\ ThreadsIdle
    /\ ZoomIdle

\* the three functions called with the byte
Normalize ==
    /\ ~normalized.done
    /\ normalized' = [done        |-> TRUE,
                      midpoint    |-> normalize_joystick_value(raw_value),
                      s_midpoint  |-> JoystickHandler_normalize_joystick_value(raw_value),
                      directional |-> p_normalize_y_axis(raw_value)]
    /\ UNCHANGED raw_value
    /\ UNCHANGED <<button_states, pressed_buttons, s_button_states, s_pressed_buttons,
                   decodeHistory, arcadeVars, shooterVars, threadVars, zoomVars>>

NormalizeNext == Normalize

SpecNormalize == NormalizeInit /\ [][NormalizeNext]_vars

\* comparisons of a fraction <<n, d>>, d > 0
InUnitRange(q) == -q[2] <= q[1] /\ q[1] <= q[2]

\* |q - target| <= 0.01 for an integer target
Within100th(q, target) ==
    LET diff == q[1] - target * q[2]
    IN  100 * diff <= q[2] /\ -100 * diff <= q[2]

\* C17: normalize_joystick_value (g.py, invaders.py) maps raw 0 to -1.0, raw 128 to
\* a value within 0.01 of 0 and raw 255 to a value within 0.01 of +1.0.
C17_MidpointBoundaries ==
    normalized.done =>
        \A q \in {normalized.midpoint, normalized.s_midpoint} :
            /\ raw_value = 0 => q[1] = -q[2]
            /\ raw_value = 128 => Within100th(q, 0)
            /\ raw_value = 255 => Within100th(q, 1)

\* C18: for every raw byte the value normalize_joystick_value returns and the value
\* p.py's normalize_y_axis returns lie in [-1, 1].
C18_NormalizedInUnitRange ==
    normalized.done =>
        /\ InUnitRange(normalized.midpoint)
        /\ InUnitRange(normalized.s_midpoint)
        /\ InUnitRange(normalized.directional)

\* p.py's normalize_y_axis alone stays in [-1, 1]
DirectionalInUnitRange == normalized.done => InUnitRange(normalized.directional)

(***************************************************************************)
(* g.py: rectangles.  A pygame Rect is [x, y, w, h] of integers.           *)
(***************************************************************************)
SCREEN_WIDTH == 800

SCREEN_HEIGHT == 600

MAX_FOOD_ITEMS == 10

Rect(x, y, w, h) == [x |-> x, y |-> y, w |-> w, h |-> h]

CenterX(r) == r.x + r.w \div 2

CenterY(r) == r.y + r.h \div 2

\* rect.center = (cx, cy)
SetCenter(r, cx, cy) == [r EXCEPT !.x = cx - r.w \div 2, !.y = cy - r.h \div 2]

\* pygame.sprite.collide_rect(a, b): Rect.colliderect, false for an empty rect
collide_rect(a, b) ==
    /\ a.w > 0 /\ a.h > 0 /\ b.w > 0 /\ b.h > 0
    /\ a.x < b.x + b.w
    /\ a.y < b.y + b.h
    /\ b.x < a.x + a.w
    /\ b.y < a.y + a.h

\* one axis of Rect.clamp_ip(screen.get_rect())
ClampAxis(pos, len, limit) ==
    IF len >= limit THEN limit \div 2 - len \div 2
    ELSE IF pos < 0 THEN 0
    ELSE IF pos + len > limit THEN limit - len
    ELSE pos

\* rect.clamp_ip(screen.get_rect())
clamp_ip(r) == [r EXCEPT !.x = ClampAxis(r.x, r.w, SCREEN_WIDTH),
                         !.y = ClampAxis(r.y, r.h, SCREEN_HEIGHT)]

(***************************************************************************)
(* g.py: Player.  speed is the constant 5; the image is not modelled (it   *)
(* is only drawn).                                                         *)
(***************************************************************************)
PlayerSpeed == 5

PlayerStartSize == 50

GrowStep == 5

\* Player(): a 50x50 rect centred on the screen, size 50
Player_init ==
    [rect |-> SetCenter(Rect(0, 0, PlayerStartSize, PlayerStartSize),
                        SCREEN_WIDTH \div 2, SCREEN_HEIGHT \div 2),
     size |-> PlayerStartSize]

\* Player.move(x, y), x and y fractions: rect.x += x * speed; rect.y -= y * speed
\* (each sum a float, truncated by the Rect); then clamp_ip.
Player_move(p, x, y) ==
    [p EXCEPT !.rect = clamp_ip(
        [p.rect EXCEPT !.x = TruncDiv(p.rect.x * x[2] + x[1] * PlayerSpeed, x[2]),
                       !.y = TruncDiv(p.rect.y * y[2] - y[1] * PlayerSpeed, y[2])])]

\* Player.grow(value): size += 5 * value; a new size x size rect about the old center
Player_grow(p, value) ==
    LET size == p.size + GrowStep * value
    IN  [rect |-> SetCenter(Rect(0, 0, size, size), CenterX(p.rect), CenterY(p.rect)),
         size |-> size]

(***************************************************************************)
(* g.py: the random draws.  random.randint and random.choice are inputs;   *)
(* each is drawn from a small sample of its range.                         *)
(***************************************************************************)
\* how many of the listed outcomes each draw is taken from
DirectionSamples == 1

WalkSamples == 1

FoodSamples == 2

EnemySamples == 2

SpotSamples == 3

CenterSamples == 2

\* the first n entries of a list of outcomes
FirstOf(list, n) == {list[i] : i \in 1..Min(n, Len(list))}

\* random.choice([(1, 0), (-1, 0), (0, 1), (0, -1)])
DirectionChoices == <<<<1, 0>>, <<-1, 0>>, <<0, 1>>, <<0, -1>>>>

Directions == FirstOf(DirectionChoices, DirectionSamples)

\* Enemy.update, unconverted: (random.choice([-1, 1]), random.choice([-1, 1]))
WalkChoices == <<<<1, 1>>, <<-1, -1>>, <<1, -1>>, <<-1, 1>>>>

WalkSteps == FirstOf(WalkChoices, WalkSamples)

\* Food.__init__: ((randint(0, SCREEN_WIDTH - 20), randint(0, SCREEN_HEIGHT - 20)),
\* random.choice(directions)), drawn together: on the screen center, in the top
\* left corner, far from both
FoodChoices == <<<<<<390, 290>>, <<1, 0>>>>, <<<<30, 30>>, <<-1, 0>>>>,
                 <<<<700, 500>>, <<0, -1>>>>>>

FoodDraws == SubSeq(FoodChoices, 1, Min(FoodSamples, Len(FoodChoices)))

\* Enemy.__init__: (randint(60, 100), (randint(0, SCREEN_WIDTH - size),
\* randint(0, SCREEN_HEIGHT - size))), drawn together
EnemyChoices == <<<<60, <<430, 275>>>>, <<70, <<600, 100>>>>, <<100, <<0, 0>>>>>>

EnemyDraws == SubSeq(EnemyChoices, 1, Min(EnemySamples, Len(EnemyChoices)))

\* spawn_new_enemy: randint(60, 100)
EnemySizeChoices == <<60, 100, 70>>

EnemySizes == FirstOf(EnemySizeChoices, EnemySamples)

\* place_enemy_safely: (randint(0, SCREEN_WIDTH - width), randint(0, SCREEN_HEIGHT - height))
SpotChoices == <<<<430, 275>>, <<0, 0>>, <<600, 100>>, <<200, 450>>>>

EnemySpots == FirstOf(SpotChoices, SpotSamples)

\* spawn_player_safely: (randint(50, SCREEN_WIDTH - 50), randint(50, SCREEN_HEIGHT - 50))
CenterChoices == <<<<400, 300>>, <<50, 50>>, <<750, 550>>>>

PlayerCenters == FirstOf(CenterChoices, CenterSamples)

FoodSize == 20

\* Food(): a 20x20 rect at a random place, a random direction (speed 1, value 1)
Food_init ==
    [i \in DOMAIN FoodDraws |->
        [rect |-> Rect(FoodDraws[i][1][1], FoodDraws[i][1][2], FoodSize, FoodSize),
         direction |-> FoodDraws[i][2]]]

\* Enemy(): random size, random place inside the screen, unconverted, speed 2.
\* The direction drawn here is never read: Enemy.update draws a new one at the
\* conversion, before the first use; one value stands for the draw.
Enemy_init ==
    [i \in DOMAIN EnemyDraws |->
        [rect |-> Rect(EnemyDraws[i][2][1], EnemyDraws[i][2][2],
                       EnemyDraws[i][1], EnemyDraws[i][1]),
         size |-> EnemyDraws[i][1],
         is_converted |-> FALSE, speed |-> 2, direction |-> <<1, 0>>]]

\* the places drawn for a width x height enemy
EnemySpotsFor(width, height) ==
    {at \in EnemySpots : at[1] <= SCREEN_WIDTH - width /\ at[2] <= SCREEN_HEIGHT - height}

\* the sequences whose i-th element is drawn from sets[i]
RECURSIVE Product(_)
Product(sets) ==
    IF sets = <<>> THEN {<<>>}
    ELSE {<<h>> \o t : h \in Head(sets), t \in Product(Tail(sets))}

\* n independent draws from the outcomes D[1], D[2], ... that fill a sprite group.
\* A group is unordered (no loop over a group depends on its order), so of the
\* sequences that differ only in order one is kept: the one with the outcomes in
\* the order of D.
Draws(n, D) ==
    {[i \in 1..n |-> D[ix[i]]] :
        ix \in {f \in [1..n -> DOMAIN D] : \A i \in 1..(n - 1) : f[i] <= f[i + 1]}}

(***************************************************************************)
(* g.py: sprite updates.                                                   *)
(***************************************************************************)
\* the wall bounce shared by Food.update and a converted Enemy.update
Bounce(r, d) ==
    LET d1 == IF r.x < 0 \/ r.x + r.w > SCREEN_WIDTH THEN <<-d[1], d[2]>> ELSE d
    IN  IF r.y < 0 \/ r.y + r.h > SCREEN_HEIGHT THEN <<d1[1], -d1[2]>> ELSE d1

\* Food.update (speed 1)
Food_update(f) ==
    LET r == [f.rect EXCEPT !.x = @ + f.direction[1], !.y = @ + f.direction[2]]
    IN  [rect |-> r, direction |-> Bounce(r, f.direction)]

\* an Enemy.update that turns a converted enemy back
Enemy_convert_back(e, p) ==
    IF e.is_converted THEN {[e EXCEPT !.is_converted = FALSE, !.speed = 2]}
    ELSE IF p.size > e.size
         THEN {[e EXCEPT !.is_converted = TRUE, !.speed = 1, !.direction = d] : d \in Directions}
         ELSE {e}

\* the conversion test of Enemy.update: the outcomes of its first if
Enemy_convert(e, p) ==
    IF p.size > e.size /\ ~e.is_converted
    THEN {[e EXCEPT !.is_converted = TRUE, !.speed = 1, !.direction = d] : d \in Directions}
    ELSE {e}

\* the movement of Enemy.update and its final clamp_ip
Enemy_move(e) ==
    IF e.is_converted
    THEN LET r == [e.rect EXCEPT !.x = @ + e.direction[1] * e.speed,
                                 !.y = @ + e.direction[2] * e.speed]
         IN  {[e EXCEPT !.rect = clamp_ip(r), !.direction = Bounce(r, e.direction)]}
    ELSE {[e EXCEPT !.rect = clamp_ip([e.rect EXCEPT !.x = @ + s[1] * e.speed,
                                                    !.y = @ + s[2] * e.speed])] :
            s \in WalkSteps}

\* Enemy.update: the possible enemies after it
Enemy_update(e, p) == UNION {Enemy_move(c) : c \in Enemy_convert(e, p)}

(***************************************************************************)
(* g.py: the phases of update_game_state after the input loop.  A world is *)
(* [player, foods, enemies, game_over]; foods and enemies are the sprites  *)
(* of the groups in insertion order.  A phase that draws random numbers    *)
(* yields the set of worlds it can produce.                                *)
(***************************************************************************)
\* the centers spawn_player_safely can end with: its loop repeats the draw until
\* the player collides with no enemy of the group
SafeCenters(p, enemies) ==
    {c \in PlayerCenters :
        \A i \in DOMAIN enemies : ~collide_rect(SetCenter(p.rect, c[1], c[2]), enemies[i].rect)}

\* spawn_player_safely()
spawn_player_safely(p, enemies) ==
    {[p EXCEPT !.rect = SetCenter(p.rect, c[1], c[2])] : c \in SafeCenters(p, enemies)}

\* initialize_game, reset_game: for _ in range(5): Food()
StartFoods == 5

\* initialize_game, reset_game: for _ in range(3): Enemy()
StartEnemies == 3

\* initialize_game(): the player, 5 foods, 3 enemies, then spawn_player_safely
initialize_game ==
    UNION {{[player |-> p, foods |-> fs, enemies |-> es, game_over |-> FALSE] :
              p \in spawn_player_safely(Player_init, es)} :
           fs \in Draws(StartFoods, Food_init), es \in Draws(StartEnemies, Enemy_init)}

\* reset_game(): spawn_player_safely against the enemies still in the group, size
\* back to 50 (the rect is kept), then the groups are emptied and refilled
reset_game(w) ==
    UNION {{[player |-> [p EXCEPT !.size = PlayerStartSize],
             foods |-> fs, enemies |-> es, game_over |-> FALSE] :
              fs \in Draws(StartFoods, Food_init), es \in Draws(StartEnemies, Enemy_init)} :
           p \in spawn_player_safely(w.player, w.enemies)}

\* handle_reset_game(button_states): both branches of its inner if call reset_game
handle_reset_game(w, states) ==
    IF states[0] = "Pressed" THEN reset_game(w) ELSE {w}

\* a food loop that ignores the cap and adds three foods per food eaten
FoodLoopNoCap(p, count, added, k) ==
    [player |-> Player_grow(p, k), added |-> 3 * k]

\* a food loop that grows the player and adds no food
FoodLoopNoRefill(p, count, added, k) ==
    [player |-> Player_grow(p, k), added |-> 0]

\* the loop of handle_food_collisions over the k collided foods: grow, then add a
\* new food while the group is below the cap.  added counts the foods added, which
\* are drawn when the loop is over.
RECURSIVE FoodLoop(_, _, _, _)
FoodLoop(p, count, added, k) ==
    IF k = 0 THEN [player |-> p, added |-> added]
    ELSE IF count < MAX_FOOD_ITEMS
         THEN FoodLoop(Player_grow(p, 1), count + 1, added + 1, k - 1)
         ELSE FoodLoop(Player_grow(p, 1), count, added, k - 1)

\* the foods spritecollide(player, foods, True) leaves in the group
foods_left(w) ==
    LET Missed(f) == ~collide_rect(w.player.rect, f.rect)
    IN  SelectSeq(w.foods, Missed)

\* handle_food_collisions(): spritecollide(player, foods, True) removes the foods
\* that touch the player, then the loop runs once per removed food
handle_food_collisions(w) ==
    LET rest == foods_left(w)
        k == Len(w.foods) - Len(rest)
        r == FoodLoop(w.player, Len(rest), 0, k)
    IN  {[w EXCEPT !.player = r.player, !.foods = rest \o fs] :
            fs \in Draws(r.added, Food_init)}

\* the enemies of a group that are not converted, by position
Unconverted(enemies) == {i \in DOMAIN enemies : ~enemies[i].is_converted}

\* the enemies for which handle_enemy_collisions sets game_over
Killers(w) ==
    {i \in DOMAIN w.enemies :
        collide_rect(w.player.rect, w.enemies[i].rect) /\ ~w.enemies[i].is_converted}

\* handle_enemy_collisions()
handle_enemy_collisions(w) ==
    IF Killers(w) # {} THEN [w EXCEPT !.game_over = TRUE] ELSE w

\* all_sprites.update(): Player has no update; every food and every enemy moves
all_sprites_update(w) ==
    {[w EXCEPT !.foods = [i \in DOMAIN w.foods |-> Food_update(w.foods[i])],
               !.enemies = es] :
        es \in Product([i \in DOMAIN w.enemies |-> Enemy_update(w.enemies[i], w.player)])}

\* target_size_percentage = 0.15, as a percentage
ZoomTargetPercent == 15

\* int(length * zoom_factor) where zoom_factor = 0.15 / (pw / SCREEN_WIDTH): the
\* product is a float; for these (pw, length) it falls just below the exact
\* integer quotient and int() gives one less.  The table covers player widths
\* 121..149 and lengths up to 150.
ZoomRoundsDown ==
    {<<124, 31>>, <<124, 62>>, <<124, 93>>, <<124, 124>>, <<130, 65>>, <<130, 130>>,
     <<134, 67>>, <<134, 134>>, <<136, 17>>, <<136, 34>>, <<136, 51>>, <<136, 68>>,
     <<136, 85>>, <<136, 102>>, <<136, 119>>, <<136, 136>>, <<137, 137>>,
     <<148, 37>>, <<148, 74>>, <<148, 111>>, <<148, 148>>, <<149, 149>>}

ZoomScale(length, pw) ==
    LET exact == (length * ZoomTargetPercent * SCREEN_WIDTH) \div (100 * pw)
    IN  IF <<pw, length>> \in ZoomRoundsDown THEN exact - 1 ELSE exact

\* the loop body of adjust_zoom on one rect: the size is scaled, the center kept
ZoomRect(r, pw) ==
    SetCenter(Rect(0, 0, ZoomScale(r.w, pw), ZoomScale(r.h, pw)), CenterX(r), CenterY(r))

\* adjust_zoom(): when the player is wider than 15% of the screen, every sprite's
\* rect is scaled about its own center and the player is put at the screen center
adjust_zoom(w) ==
    LET pw == w.player.rect.w
    IN  IF pw * 100 > ZoomTargetPercent * SCREEN_WIDTH
        THEN [w EXCEPT
                !.player.rect = SetCenter(ZoomRect(w.player.rect, pw),
                                          SCREEN_WIDTH \div 2, SCREEN_HEIGHT \div 2),
                !.foods = [i \in DOMAIN w.foods |->
                             [w.foods[i] EXCEPT !.rect = ZoomRect(w.foods[i].rect, pw)]],
                !.enemies = [i \in DOMAIN w.enemies |->
                             [w.enemies[i] EXCEPT !.rect = ZoomRect(w.enemies[i].rect, pw)]]]
        ELSE w

\* update_game_state: the loop that removes the converted enemies the player touches
eat_converted(w) ==
    LET Stays(e) == ~(e.is_converted /\ collide_rect(w.player.rect, e.rect))
    IN  [w EXCEPT !.enemies = SelectSeq(w.enemies, Stays)]

\* a place_enemy_safely that takes the first place drawn
SafeSpots_unchecked(size, p, enemies) == EnemySpotsFor(size, size)

\* the places place_enemy_safely can end with for a size x size enemy: its loop
\* repeats the draw until the enemy touches neither the player nor an enemy
SafeSpots(size, p, enemies) ==
    {at \in EnemySpotsFor(size, size) :
        LET r == Rect(at[1], at[2], size, size)
        IN  /\ ~collide_rect(p.rect, r)
            /\ \A i \in DOMAIN enemies : ~collide_rect(r, enemies[i].rect)}

\* spawn_new_enemy(): Enemy(), a fresh random size, place_enemy_safely
spawn_new_enemy(p, enemies) ==
    UNION {{[rect |-> Rect(at[1], at[2], size, size), size |-> size,
             is_converted |-> FALSE, speed |-> 2, direction |-> <<1, 0>>] :
               at \in SafeSpots(size, p, enemies)} : size \in EnemySizes}

MinEnemies == 3

\* update_game_state: while len(enemies) < 3: spawn_new_enemy()
RECURSIVE maintain_enemies(_, _)
maintain_enemies(p, enemies) ==
    IF Len(enemies) < MinEnemies
    THEN UNION {maintain_enemies(p, Append(enemies, e)) : e \in spawn_new_enemy(p, enemies)}
    ELSE {enemies}

(***************************************************************************)
(* Spec: g.py.  The reader thread puts reports; the main thread runs its   *)
(* while loop: process_events, the input loop of handle_joystick_input     *)
(* (one report per step, so that the reader can put in between), then the  *)
(* rest of update_game_state in one step.  No QUIT event arrives.          *)
(***************************************************************************)
MaxTicks == 2

MaxReports == 2

\* the reports the device sends: button 1 down with the stick to the right, button
\* 1 up with the stick to the left
ArcadeReports == {Report(1, 0, 0, 0, 127, 0, 0), Report(0, 0, 0, 0, 129, 0, 0)}

\* a rect lies entirely within the screen rectangle
InsideArena(r) ==
    /\ r.x >= 0 /\ r.y >= 0
    /\ r.x + r.w <= SCREEN_WIDTH /\ r.y + r.h <= SCREEN_HEIGHT

\* the player's rect overlaps no enemy of the group
PlayerSafe(w) ==
    \A i \in DOMAIN w.enemies : ~collide_rect(w.player.rect, w.enemies[i].rect)

\* what is recorded of a world: the player's size and rect size, game_over, the
\* numbers of foods and of unconverted enemies, whether the player is safe
Snapshot(w) ==
    [size |-> w.player.size, w |-> w.player.rect.w, h |-> w.player.rect.h,
     game_over |-> w.game_over, foods |-> Len(w.foods), enemies |-> Len(w.enemies),
     unconverted |-> Cardinality(Unconverted(w.enemies)), safe |-> PlayerSafe(w)]

\* the enemies the maintenance loop appended to the group old, giving es: each,
\* when it was added, lay inside the screen, was unconverted and overlapped
\* neither the player nor an enemy already in the group
SpawnedSafely(p, old, es) ==
    \A j \in (Len(old) + 1)..Len(es) :
        /\ InsideArena(es[j].rect)
        /\ ~es[j].is_converted
        /\ ~collide_rect(p.rect, es[j].rect)
        /\ \A i \in 1..(j - 1) : ~collide_rect(es[j].rect, es[i].rect)

\* the history kept of one iteration of main's loop
NewLog(w, queue) ==
    [queued_at_start  |-> Len(queue),   \* reports queued when the input loop started
     drained          |-> 0,            \* reports got by the input loop
     edges            |-> {},           \* buttons in a pressed list of this iteration
     last_data        |-> NoReport,     \* the report got last
     playing          |-> ~w.game_over, \* game_over was False in the input loop
     start_rect       |-> w.player.rect,\* the player's rect when the input loop started
     after_input      |-> w.player.rect,\* the player's rect when the input loop ended
     reset_ran        |-> FALSE,        \* handle_reset_game called reset_game
     foods_kept       |-> Len(w.foods), \* foods left by spritecollide in
                                        \* handle_food_collisions
     foods_after      |-> Len(w.foods), \* foods when handle_food_collisions returned
     was_converted    |-> 0,            \* enemies that were converted when
                                        \* all_sprites.update() was called
     reverted         |-> FALSE,        \* one of them was unconverted after
                                        \* all_sprites.update() and adjust_zoom()
     prev_reset       |-> FALSE,        \* reset_game ran in the iteration before
     after_reset      |-> Snapshot(w),  \* the world when reset_game returned
     eaten_converted  |-> 0,            \* enemies removed by the eating loop
     size_before_eat  |-> w.player.size,\* player.size when the eating loop started
     size_after_eat   |-> w.player.size,\* player.size when it ended
     spawned          |-> 0,            \* enemies added by the maintenance loop
     spawn_ok         |-> TRUE,         \* each of them was placed safely
     killed_by_smaller |-> FALSE,       \* handle_enemy_collisions set game_over for
                                        \* an enemy smaller than the player
     done             |-> FALSE]        \* update_game_state has returned

Init ==
    /\ button_states = InitButtonStates
    /\ pressed_buttons = <<>>
    /\ data_queue = <<>>
    /\ world \in initialize_game
    /\ mpc = "events"
    /\ ticks = 0
    /\ produced = 0
    /\ tick_log = [NewLog(world, <<>>) EXCEPT !.done = TRUE]
    /\ s_button_states = JoystickHandler_InitButtonStates
    /\ s_pressed_buttons = <<>>
    /\ NoDecodeHistory
    /\ ShooterIdle
    /\ NormIdle
    /\ ThreadsIdle
    /\ ZoomIdle

notArcade == <<s_button_states, s_pressed_buttons, decodeHistory, shooterVars, normVars,
              threadVars, zoomVars>>

\* device_read_thread: one iteration of its loop, device.read(33) then put
device_read_thread ==
    /\ produced < MaxReports
    /\ \E data \in ArcadeReports : data_queue' = Append(data_queue, data)
    /\ produced' = produced + 1
    /\ UNCHANGED <<button_states, pressed_buttons, world, mpc, ticks, tick_log>>
    /\ UNCHANGED notArcade

\* process_events() with no QUIT event pending; update_game_state is entered
process_events ==
    /\ mpc = "events"
    /\ ticks < MaxTicks
    /\ mpc' = "input"
    /\ tick_log' = [NewLog(world, data_queue) EXCEPT !.prev_reset = tick_log.reset_ran]
    /\ UNCHANGED <<button_states, pressed_buttons, data_queue, world, ticks, produced>>
    /\ UNCHANGED notArcade

\* handle_joystick_input: one iteration of while not data_queue.empty()
handle_joystick_input ==
    /\ mpc = "input"
    /\ data_queue # <<>>
    /\ LET data == Head(data_queue)
           j == parse_joystick(data, button_states)
       IN  /\ data_queue' = Tail(data_queue)
           /\ button_states' = j.button_states
           /\ pressed_buttons' = j.pressed_buttons
           /\ world' = IF ~world.game_over
                       THEN [world EXCEPT !.player = Player_move(world.player, j.x, j.y)]
                       ELSE world
           /\ tick_log' = [tick_log EXCEPT
                             !.drained = @ + 1,
                             !.edges = @ \cup Range(j.pressed_buttons),
                             !.last_data = data]
    /\ UNCHANGED <<mpc, ticks, produced>>
    /\ UNCHANGED notArcade

\* update_game_state after the input loop found the queue empty
update_game_state ==
    /\ mpc = "input"
    /\ data_queue = <<>>
    /\ \E w1 \in handle_reset_game(world, button_states) :
       \E w2 \in handle_food_collisions(w1) :
         LET w3 == handle_enemy_collisions(w2)
         IN  \E w4 \in all_sprites_update(w3) :
               LET w6 == eat_converted(adjust_zoom(w4))
               IN  \E es \in maintain_enemies(w6.player, w6.enemies) :
                     /\ world' = [w6 EXCEPT !.enemies = es]
                     /\ tick_log' = [tick_log EXCEPT
                          !.after_input = world.player.rect,
                          !.reset_ran = (button_states[0] = "Pressed"),
                          !.foods_kept = Len(foods_left(w1)),
                          !.foods_after = Len(w2.foods),
                          !.was_converted =
                              Cardinality(DOMAIN w3.enemies \ Unconverted(w3.enemies)),
                          !.reverted =
                              \E i \in DOMAIN w3.enemies :
                                  /\ w3.enemies[i].is_converted
                                  /\ ~adjust_zoom(w4).enemies[i].is_converted,
                          !.after_reset = Snapshot(w1),
                          !.eaten_converted = Len(w4.enemies) - Len(w6.enemies),
                          !.size_before_eat = adjust_zoom(w4).player.size,
                          !.size_after_eat = w6.player.size,
                          !.spawned = Len(es) - Len(w6.enemies),
                          !.spawn_ok = SpawnedSafely(w6.player, w6.enemies, es),
                          !.killed_by_smaller =
                              \E i \in Killers(w2) : w2.enemies[i].size < w2.player.size,
                          !.done = TRUE]
    /\ mpc' = "events"
    /\ ticks' = ticks + 1
    /\ UNCHANGED <<button_states, pressed_buttons, data_queue, produced>>
    /\ UNCHANGED notArcade

Next ==
    \/ device_read_thread
    \/ process_events
    \/ handle_joystick_input
    \/ update_game_state

Spec == Init /\ [][Next]_vars


(***************************************************************************)
(* SpecZoom: adjust_zoom applied to one world in which it rescales: the    *)
(* player's rect is wider than 15% of the screen.  Player.grow builds the  *)
(* rect from size, so the widths that occur are the sizes 50 + 5k above    *)
(* 120.  By then the player is larger than every enemy (60..100), and      *)
(* Enemy.update has converted them.                                        *)
(***************************************************************************)
\* foods eaten up to the call: the player's size is at most 50 + 5 * MaxGrowth
MaxGrowth == 19

\* how many of the listed player centers the worlds are built from
ZoomCenterSamples == 3

\* the sizes of a player that adjust_zoom rescales
ZoomSizes ==
    {size \in {PlayerStartSize + GrowStep * k : k \in 0..MaxGrowth} :
        size * 100 > ZoomTargetPercent * SCREEN_WIDTH}

\* where the player stands when adjust_zoom is called: Player.move leaves the rect
\* anywhere inside the screen
ZoomCenterChoices == <<<<200, 150>>, <<400, 300>>, <<600, 450>>>>

ZoomCenters == FirstOf(ZoomCenterChoices, ZoomCenterSamples)

\* Food(): the foods of every outcome listed in FoodChoices
ZoomFoods ==
    [i \in DOMAIN FoodChoices |->
        [rect |-> Rect(FoodChoices[i][1][1], FoodChoices[i][1][2], FoodSize, FoodSize),
         direction |-> FoodChoices[i][2]]]

\* Enemy() then Enemy.update: the enemies of every outcome listed in EnemyChoices,
\* converted
ZoomEnemies ==
    [i \in DOMAIN EnemyChoices |->
        [rect |-> Rect(EnemyChoices[i][2][1], EnemyChoices[i][2][2],
                       EnemyChoices[i][1], EnemyChoices[i][1]),
         size |-> EnemyChoices[i][1],
         is_converted |-> TRUE, speed |-> 1, direction |-> <<1, 0>>]]

\* the worlds adjust_zoom is called in: five foods, three enemies
ZoomWorlds ==
    {[player |-> [rect |-> SetCenter(Rect(0, 0, size, size), c[1], c[2]), size |-> size],
      foods |-> fs, enemies |-> es, game_over |-> FALSE] :
        size \in ZoomSizes, c \in ZoomCenters,
        fs \in Draws(StartFoods, ZoomFoods), es \in Draws(StartEnemies, ZoomEnemies)}

ZoomInit ==
    /\ \E w \in ZoomWorlds : zoom_case = [before |-> w, after |-> w, done |-> FALSE]
    /\ button_states = InitButtonStates
    /\ s_button_states = JoystickHandler_InitButtonStates
    /\ pressed_buttons = <<>>
    /\ s_pressed_buttons = <<>>
    /\ NoDecodeHistory
    /\ ArcadeIdle
    /\ ShooterIdle
    /\ NormIdle
    /\ ThreadsIdle

\* update_game_state: the call adjust_zoom()
Zoom ==
    /\ ~zoom_case.done
    /\ zoom_case' = [zoom_case EXCEPT !.after = adjust_zoom(zoom_case.before),
                                      !.done = TRUE]
    /\ UNCHANGED <<button_states, pressed_buttons, s_button_states, s_pressed_buttons,
                   decodeHistory, arcadeVars, shooterVars, normVars, threadVars>>

ZoomNext == Zoom

SpecZoom == ZoomInit /\ [][ZoomNext]_vars


(***************************************************************************)
(* SpecShooter: invaders.py.  Sprite geometry is not modelled: which       *)
(* asteroids overlap the player or a bullet in an iteration, and which     *)
(* bullets leave the screen, are inputs.  The groups are kept as counts.   *)
(***************************************************************************)
\* the length of the round list loaded from rounds.json
NumRounds == 3

\* setup_round: range(10)
AsteroidsPerRound == 10

\* Player.__init__: self.lives = 3
StartLives == 3

\* handle_collisions: self.score += 100
HitScore == 100

MaxShooterReports == 2

\* the numbers of asteroids that one sprite (the player, a bullet) is taken to
\* overlap at once when n are alive: up to MaxOverlap, or all of them
MaxOverlap == 2

OverlapCounts(n) == {k \in 0..n : k <= MaxOverlap \/ k = n}

\* the reports the device sends: button 1 (fire), button 2 (restart), all released
ShooterReports == {Report(1, 0, 0, 0, 128, 128, 128), Report(0, 1, 0, 0, 128, 128, 128),
                   Report(0, 0, 0, 0, 128, 128, 128)}

\* Player(screen): 3 lives, no bullets, its own is_game_over flag
ShooterPlayer_init == [lives |-> StartLives, bullets |-> 0, is_game_over |-> FALSE]

\* Game.setup_round(round_index): ten asteroids of the round's color, a new Player
setup_round(g, round_index) ==
    [g EXCEPT !.asteroids = AsteroidsPerRound, !.player = ShooterPlayer_init]

\* Game.reset_game()
Game_reset_game(g) ==
    LET g1 == setup_round([g EXCEPT !.current_round_index = 0, !.score = 0, !.shot = 0], 0)
    IN  [g1 EXCEPT !.is_game_over = FALSE, !.player.lives = StartLives]

\* Game.__init__: is_game_over = False, load_round_data, reset_game.  shot is
\* history: the asteroids that bullets removed since the last reset_game; crashed
\* tells that an exception has ended the program.
Game_init ==
    Game_reset_game([is_game_over |-> FALSE, current_round_index |-> 0, score |-> 0,
                     asteroids |-> 0, player |-> ShooterPlayer_init, crashed |-> FALSE,
                     shot |-> 0])

\* a check_round_completion that wraps around after the last round
check_round_completion_wrap(g) ==
    IF g.asteroids = 0
    THEN LET index == (g.current_round_index + 1) % NumRounds
         IN  setup_round([g EXCEPT !.current_round_index = index], index)
    ELSE g

\* Game.check_round_completion()
check_round_completion(g) ==
    IF g.asteroids = 0
    THEN LET index == IF g.current_round_index < NumRounds - 1
                      THEN g.current_round_index + 1
                      ELSE NumRounds - 1
         IN  setup_round([g EXCEPT !.current_round_index = index], index)
    ELSE g

\* Player.lose_life(): the flag it sets is the Player's, not the Game's
lose_life(p) ==
    LET lives == IF p.lives > 0 THEN p.lives - 1 ELSE p.lives
    IN  IF lives <= 0
        THEN [p EXCEPT !.lives = lives, !.is_game_over = TRUE]
        ELSE [p EXCEPT !.lives = lives]

\* Player.update(...): the move and the turret are not modelled; button 1 fires
ShooterPlayer_update(p, pressed) ==
    IF 1 \in Range(pressed) THEN [p EXCEPT !.bullets = @ + 1] ELSE p

\* the bullet loop of handle_collisions, todo bullets still to visit: a bullet that
\* overlaps hit >= 1 asteroids removes them all, adds 100 once and is removed
RECURSIVE BulletLoop(_, _)
BulletLoop(g, todo) ==
    IF todo = 0 THEN {g}
    ELSE UNION {BulletLoop(IF hit > 0
                           THEN [g EXCEPT !.asteroids = @ - hit,
                                          !.score = @ + HitScore,
                                          !.shot = @ + hit,
                                          !.player.bullets = @ - 1]
                           ELSE g, todo - 1) : hit \in OverlapCounts(g.asteroids)}

\* Game.handle_collisions(): the asteroids that overlap the player are removed and
\* cost one life together; then the bullet loop
handle_collisions(g) ==
    UNION {BulletLoop(IF touched > 0
                      THEN [g EXCEPT !.asteroids = @ - touched,
                                     !.player = lose_life(g.player)]
                      ELSE g, g.player.bullets) : touched \in OverlapCounts(g.asteroids)}

\* player.bullets.update(): a bullet that is no longer inside the screen is removed
bullets_update(g) == {[g EXCEPT !.player.bullets = @ - gone] : gone \in 0..g.player.bullets}

\* the history kept of one iteration of Game.run
ShooterLog(g, queue) ==
    [stale           |-> 0,      \* reports queued before the input phase, still queued after it
     lives_at_start  |-> g.player.lives,
     restart_edge    |-> FALSE,  \* button 2 was in the pressed list of this iteration
     lives_hit_zero  |-> FALSE,  \* lose_life brought lives to 0 in this iteration
     prev_round      |-> g.current_round_index,
     completions     |-> 0,      \* calls of check_round_completion that found no asteroid
     restarted       |-> FALSE,  \* reset_game ran
     after_error     |-> FALSE,  \* device.read had raised before this iteration
     before          |-> [lives |-> g.player.lives, score |-> g.score],
                                 \* lives and score before the last round transition
     after           |-> [lives |-> g.player.lives, score |-> g.score],
                                 \* lives and score after it
     done            |-> FALSE]

ShooterInit ==
    /\ s_button_states = JoystickHandler_InitButtonStates
    /\ s_pressed_buttons = <<>>
    /\ s_data_queue = <<>>
    /\ game = Game_init
    /\ s_produced = 0
    /\ s_reader = "running"
    /\ s_log = ShooterLog(Game_init, <<>>)
    /\ button_states = InitButtonStates
    /\ pressed_buttons = <<>>
    /\ NoDecodeHistory
    /\ ArcadeIdle
    /\ NormIdle
    /\ ThreadsIdle
    /\ ZoomIdle

notShooter == <<button_states, pressed_buttons, decodeHistory, arcadeVars, normVars,
               threadVars, zoomVars>>

\* a read thread that goes on reading after device.read has raised
reader_alive_always(r) == TRUE

\* the read thread is in its loop: the except clause of device_read_thread breaks
reader_alive(r) == r = "running"

\* JoystickHandler.device_read_thread: one iteration, device.read(33) then put
JoystickHandler_device_read_thread ==
    /\ reader_alive(s_reader)
    /\ s_produced < MaxShooterReports
    /\ \E data \in ShooterReports : s_data_queue' = Append(s_data_queue, data)
    /\ s_produced' = s_produced + 1
    /\ UNCHANGED <<s_button_states, s_pressed_buttons, game, s_reader, s_log>>
    /\ UNCHANGED notShooter

\* JoystickHandler.device_read_thread: device.read(33) raises; the except clause
\* prints and breaks
JoystickHandler_read_error ==
    /\ s_reader = "running"
    /\ s_reader' = "failed"
    /\ UNCHANGED <<s_button_states, s_pressed_buttons, s_data_queue, game, s_produced,
                   s_log>>
    /\ UNCHANGED notShooter

\* the input of Game.update_game_state: at most one report is taken.  got tells
\* whether pressed_buttons was assigned.
ShooterInput(g, queue, states) ==
    IF queue # <<>>
    THEN LET j == JoystickHandler_parse_joystick(Head(queue), states)
         IN  [queue |-> Tail(queue), states |-> j.button_states, got |-> TRUE,
              pressed |-> j.pressed_buttons,
              game |-> IF ~g.is_game_over
                       THEN [g EXCEPT !.player = ShooterPlayer_update(g.player, j.pressed_buttons)]
                       ELSE g]
    ELSE [queue |-> queue, states |-> states, got |-> FALSE, pressed |-> <<>>, game |-> g]

\* the restart test of Game.update_game_state; reading pressed_buttons when no
\* report was taken raises UnboundLocalError, which ends the program
ShooterRestart(g, got, pressed) ==
    IF g.is_game_over
    THEN IF ~got THEN [g EXCEPT !.crashed = TRUE]
         ELSE IF 2 \in Range(pressed) THEN Game_reset_game(g) ELSE g
    ELSE g

\* one iteration of Game.run with no QUIT event: update_game_state (input, restart,
\* handle_collisions, check_round_completion, bullets.update), render_game, and
\* the second check_round_completion
Game_run ==
    /\ ~game.crashed
    /\ LET in == ShooterInput(game, s_data_queue, s_button_states)
           g1 == ShooterRestart(in.game, in.got, in.pressed)
       IN  /\ s_data_queue' = in.queue
           /\ s_button_states' = in.states
           /\ s_pressed_buttons' = in.pressed
           /\ IF g1.crashed
              THEN /\ game' = g1
                   /\ s_log' = [ShooterLog(game, s_data_queue) EXCEPT !.done = TRUE]
              ELSE \E g2 \in handle_collisions(g1) :
                     LET g3 == check_round_completion(g2)
                     IN  \E g4 \in bullets_update(g3) :
                           LET g5 == check_round_completion(g4)
                               first == g2.asteroids = 0
                               second == g4.asteroids = 0
                           IN  /\ game' = g5
                               /\ s_log' = [ShooterLog(game, s_data_queue) EXCEPT
                                    !.stale = Len(s_data_queue) - (IF in.got THEN 1 ELSE 0),
                                    !.restart_edge = 2 \in Range(in.pressed),
                                    !.lives_hit_zero =
                                        g2.player.lives = 0 /\ g1.player.lives > 0,
                                    !.completions = (IF first THEN 1 ELSE 0)
                                                    + (IF second THEN 1 ELSE 0),
                                    !.after_error = (s_reader = "failed"),
                                    !.restarted = in.game.is_game_over /\ in.got /\ 2 \in Range(in.pressed),
                                    !.before = IF second
                                               THEN [lives |-> g4.player.lives, score |-> g4.score]
                                               ELSE [lives |-> g2.player.lives, score |-> g2.score],
                                    !.after = IF second
                                              THEN [lives |-> g5.player.lives, score |-> g5.score]
                                              ELSE [lives |-> g3.player.lives, score |-> g3.score],
                                    !.done = TRUE]
    /\ UNCHANGED <<s_produced, s_reader>>
    /\ UNCHANGED notShooter

ShooterNext ==
    \/ JoystickHandler_device_read_thread
    \/ JoystickHandler_read_error
    \/ Game_run

SpecShooter == ShooterInit /\ [][ShooterNext]_vars


(***************************************************************************)
(* SpecThreads: the read thread and the main thread of each program, from  *)
(* the start of the read thread to the end of main.  What an iteration of  *)
(* the main loop does after its input phase (simulation, drawing, clock)   *)
(* touches neither the queue, the event nor the device and is one step.    *)
(* The k-th non-empty report device.read returns is written k.  When       *)
(* device.read returns, and whether it returns a report, nothing or        *)
(* raises, is the device's choice.                                         *)
(***************************************************************************)
Variants == {"g", "p", "game", "invaders"}

MaxThreadReads == 3

MaxThreadTicks == 2

\* a queue.get that takes the newest item
queue_get_newest(q) == [item |-> q[Len(q)], rest |-> SubSeq(q, 1, Len(q) - 1)]

\* queue.Queue.get_nowait() / get() on a non-empty queue: the oldest item
queue_get(q) == [item |-> Head(q), rest |-> Tail(q)]

\* queue.Queue.put(item)
queue_put(q, item) == Append(q, item)

ThreadsInit ==
    /\ variant \in Variants
    /\ stop_event = FALSE
    /\ device = "open"
    /\ running = TRUE
    /\ t_data_queue = <<>>
    /\ reader_pc = "test"
    /\ hand = 0
    /\ reader_failed = FALSE
    /\ main_pc = "events"
    /\ t_reads = 0
    /\ decoded = <<>>
    /\ t_ticks = 0
    /\ button_states = InitButtonStates
    /\ s_button_states = JoystickHandler_InitButtonStates
    /\ pressed_buttons = <<>>
    /\ s_pressed_buttons = <<>>
    /\ NoDecodeHistory
    /\ ArcadeIdle
    /\ ShooterIdle
    /\ NormIdle
    /\ ZoomIdle

notThreads == <<button_states, pressed_buttons, s_button_states, s_pressed_buttons,
                decodeHistory, arcadeVars, shooterVars, normVars, zoomVars>>

\* device_read_thread: while not stop_event.is_set()
reader_test ==
    /\ reader_pc = "test"
    /\ reader_pc' = IF stop_event THEN "ended" ELSE "read"
    /\ UNCHANGED <<variant, stop_event, device, running, t_data_queue, hand,
                   reader_failed, main_pc, t_reads, decoded, t_ticks>>
    /\ UNCHANGED notThreads

\* device.read(33) returns a report
reader_read_report ==
    /\ reader_pc = "read"
    /\ device = "open"
    /\ t_reads < MaxThreadReads
    /\ t_reads' = t_reads + 1
    /\ hand' = t_reads + 1
    /\ reader_pc' = "put"
    /\ UNCHANGED <<variant, stop_event, device, running, t_data_queue,
                   reader_failed, main_pc, decoded, t_ticks>>
    /\ UNCHANGED notThreads

\* device.read(33) returns an empty list: if data is false, back to the condition
reader_read_empty ==
    /\ reader_pc = "read"
    /\ device = "open"
    /\ reader_pc' = "test"
    /\ UNCHANGED <<variant, stop_event, device, running, t_data_queue, hand,
                   reader_failed, main_pc, t_reads, decoded, t_ticks>>
    /\ UNCHANGED notThreads

\* device.read(33) raises (a device error, or the handle is closed): invaders.py
\* catches it and breaks; in the others the exception ends the thread
reader_read_raises ==
    /\ reader_pc = "read"
    /\ reader_pc' = "ended"
    /\ reader_failed' = TRUE
    /\ UNCHANGED <<variant, stop_event, device, running, t_data_queue, hand,
                   main_pc, t_reads, decoded, t_ticks>>
    /\ UNCHANGED notThreads

\* data_queue.put(data)
reader_put ==
    /\ reader_pc = "put"
    /\ t_data_queue' = queue_put(t_data_queue, hand)
    /\ hand' = 0
    /\ reader_pc' = "test"
    /\ UNCHANGED <<variant, stop_event, device, running, reader_failed, main_pc,
                   t_reads, decoded, t_ticks>>
    /\ UNCHANGED notThreads

\* the event loop at the top of an iteration finds no QUIT event
main_events ==
    /\ main_pc = "events"
    /\ t_ticks < MaxThreadTicks
    /\ main_pc' = "input"
    /\ UNCHANGED <<variant, stop_event, device, running, t_data_queue, reader_pc, hand,
                   reader_failed, t_reads, decoded, t_ticks>>
    /\ UNCHANGED notThreads

\* the event loop finds a QUIT event.
\*   g.py process_events: running = False, then stop_event.set() raises NameError
\*     (stop_event is a local of main); main's except logs it and main returns.
\*   p.py: running = False; stop_event.set(); the iteration goes on.
\*   game.py: running = False; the iteration goes on.
\*   invaders.py handle_events: stop_event.set(), then device.close().
main_quit ==
    /\ main_pc = "events"
    /\ running' = IF variant = "invaders" THEN running ELSE FALSE
    /\ stop_event' = IF variant \in {"p", "invaders"} THEN TRUE ELSE stop_event
    /\ main_pc' = CASE variant = "g" -> "exited"
                    [] variant = "invaders" -> "close"
                    [] OTHER -> "input"
    /\ UNCHANGED <<variant, device, t_data_queue, reader_pc, hand, reader_failed,
                   t_reads, decoded, t_ticks>>
    /\ UNCHANGED notThreads

\* the input phase: g.py, p.py and game.py loop while the queue is not empty, one
\* report per step; invaders.py takes one report if there is one
main_input ==
    /\ main_pc = "input"
    /\ IF t_data_queue # <<>>
       THEN /\ t_data_queue' = queue_get(t_data_queue).rest
            /\ decoded' = Append(decoded, queue_get(t_data_queue).item)
            /\ main_pc' = IF variant = "invaders" THEN "rest" ELSE "input"
       ELSE /\ main_pc' = "rest"
            /\ UNCHANGED <<t_data_queue, decoded>>
    /\ UNCHANGED <<variant, stop_event, device, running, reader_pc, hand,
                   reader_failed, t_reads, t_ticks>>
    /\ UNCHANGED notThreads

\* the rest of the iteration, then the loop condition
main_rest ==
    /\ main_pc = "rest"
    /\ t_ticks' = t_ticks + 1
    /\ main_pc' = IF running THEN "events"
                  ELSE IF variant = "game" THEN "set_stop" ELSE "join"
    /\ UNCHANGED <<variant, stop_event, device, running, t_data_queue, reader_pc, hand,
                   reader_failed, t_reads, decoded>>
    /\ UNCHANGED notThreads

\* game.py main: stop_event.set() after the loop
main_set_stop ==
    /\ main_pc = "set_stop"
    /\ stop_event' = TRUE
    /\ main_pc' = "join"
    /\ UNCHANGED <<variant, device, running, t_data_queue, reader_pc, hand,
                   reader_failed, t_reads, decoded, t_ticks>>
    /\ UNCHANGED notThreads

\* read_thread.join() returns: the read thread has ended
main_join ==
    /\ main_pc = "join"
    /\ reader_pc = "ended"
    /\ main_pc' = "close"
    /\ UNCHANGED <<variant, stop_event, device, running, t_data_queue, reader_pc, hand,
                   reader_failed, t_reads, decoded, t_ticks>>
    /\ UNCHANGED notThreads

\* device.close(); in p.py and game.py pygame.quit() and the end of main follow
main_close ==
    /\ main_pc = "close"
    /\ device' = "closed"
    /\ main_pc' = IF variant = "invaders" THEN "exit" ELSE "exited"
    /\ UNCHANGED <<variant, stop_event, running, t_data_queue, reader_pc, hand,
                   reader_failed, t_reads, decoded, t_ticks>>
    /\ UNCHANGED notThreads

\* invaders.py handle_events: pygame.quit(); sys.exit().  The read thread is a
\* daemon thread and ends with the process.
main_exit ==
    /\ main_pc = "exit"
    /\ main_pc' = "exited"
    /\ reader_pc' = "ended"
    /\ UNCHANGED <<variant, stop_event, device, running, t_data_queue, hand,
                   reader_failed, t_reads, decoded, t_ticks>>
    /\ UNCHANGED notThreads

\* the steps of the read thread that do not wait for the device
reader_step == reader_test \/ reader_put

\* the steps of the main thread
main_step ==
    \/ main_events
    \/ main_quit
    \/ main_input
    \/ main_rest
    \/ main_set_stop
    \/ main_join
    \/ main_close
    \/ main_exit

ThreadsNext ==
    \/ reader_test
    \/ reader_read_report
    \/ reader_read_empty
    \/ reader_read_raises
    \/ reader_put
    \/ main_events
    \/ main_quit
    \/ main_input
    \/ main_rest
    \/ main_set_stop
    \/ main_join
    \/ main_close
    \/ main_exit

SpecThreads == ThreadsInit /\ [][ThreadsNext]_vars

\* both threads are scheduled fairly; the device is not bound to answer
SpecThreadsFair ==
    /\ ThreadsInit
    /\ [][ThreadsNext]_vars
    /\ WF_vars(reader_step)
    /\ WF_vars(main_step)

(***************************************************************************)
(* Claims about the threads (SpecThreads, SpecThreadsFair).                *)
(***************************************************************************)
\* C13: the device is closed only when the read thread has ended.
C13_CloseAfterReaderEnded == device = "closed" => reader_pc = "ended"

\* g.py, p.py and game.py alone: the device is closed only when the read thread
\* has ended
JoinedBeforeClose ==
    (variant # "invaders" /\ device = "closed") => reader_pc = "ended"

\* C14: once the stop signal is set, the read thread ends and the join in main
\* returns, whether or not the device delivers another report.
C14_ShutdownCompletes ==
    stop_event ~> (reader_pc = "ended" /\ main_pc \in {"close", "exit", "exited"})

\* every program: a read thread in which device.read raised has ended, and the main
\* thread is where it would be without the error
ReadErrorEndsReader == reader_failed => reader_pc = "ended"

\* g.py alone: a QUIT event ends main with the stop signal unset, the read thread
\* not joined and the device open
ArcadeQuitSkipsShutdown ==
    (variant = "g" /\ main_pc = "exited") =>
        ~stop_event /\ device = "open"

\* the reports decoded, queued and held by the read thread, oldest first
InFlight == decoded \o t_data_queue \o (IF hand # 0 THEN <<hand>> ELSE <<>>)

\* C16: at every moment the reports read so far are, in the order read and each
\* once, the reports decoded, then the reports in the queue, then the report the
\* read thread is about to put: none is lost, doubled or overtaken.
C16_NoReportLostOrReordered == InFlight = [k \in 1..t_reads |-> k]

\* g.py in the input loop of its second iteration: every report read so far has
\* been decoded, in the order read
C16_Witness ==
    /\ variant = "g"
    /\ t_reads = MaxThreadReads
    /\ decoded = [k \in 1..MaxThreadReads |-> k]
    /\ t_ticks = 1
    /\ main_pc = "input"

(***************************************************************************)
(* Claims about the input phase and the game of g.py (Spec).               *)
(***************************************************************************)
\* g.py alone: when update_game_state has returned, the input loop has got at
\* least the reports that were queued when it started
ArcadeDrainsAllQueued ==
    tick_log.done => tick_log.drained >= tick_log.queued_at_start

\* C3: when a report drained in an iteration carried a released-to-pressed edge of
\* button 1 (latch index 0), reset_game ran in that iteration, also when a later
\* report of the batch released the button.
C3_EdgeInBatchResets ==
    (tick_log.done /\ 1 \in tick_log.edges) => tick_log.reset_ran

\* the rect one Player.move with the axes of report data gives, from rect r
MovedOnce(r, data) ==
    LET j == parse_joystick(data, InitButtonStates)
    IN  Player_move([rect |-> r, size |-> PlayerStartSize], j.x, j.y).rect

\* C4: when more than one report is drained in an iteration (game not over), the
\* player's rect after the input loop is its rect before the loop moved once, by
\* the axes of the last report.
C4_LastReportWins ==
    (tick_log.done /\ tick_log.playing /\ tick_log.drained > 1)
        => tick_log.after_input = MovedOnce(tick_log.start_rect, tick_log.last_data)

\* C9: handle_enemy_collisions never sets game_over for an unconverted enemy that
\* is smaller than the player.
C9_NoGameOverBySmallerEnemy == ~tick_log.killed_by_smaller

\* C10: after every iteration at least 3 unconverted enemies are alive.
C10_UnconvertedFloor ==
    (mpc = "events" /\ ticks > 0) => Cardinality(Unconverted(world.enemies)) >= MinEnemies

\* C11: the food group never holds more than MAX_FOOD_ITEMS foods, after a reset
\* and after an iteration; handle_food_collisions adds at most one food per food
\* eaten, and the group was below the cap before each food it added.
C11_FoodCap ==
    /\ Len(world.foods) <= MAX_FOOD_ITEMS
    /\ tick_log.done =>
         /\ tick_log.foods_after <= MAX_FOOD_ITEMS
         /\ tick_log.foods_after > tick_log.foods_kept =>
                tick_log.foods_after - 1 < MAX_FOOD_ITEMS

\* an iteration in which the player ate foods and they were replaced, and one
\* in which reset_game refilled the group
C11_Witness ==
    /\ tick_log.done
    /\ ticks = 2
    /\ tick_log.foods_after > tick_log.foods_kept
    /\ tick_log.foods_kept < 5
    /\ tick_log.reset_ran

\* C12: an enemy that is converted stays converted: no enemy that was converted
\* when all_sprites.update() was called is unconverted after it and after
\* adjust_zoom (the other steps, the input loop, the eating loop and the spawn
\* loop, remove or add enemies and leave the others as they are), and the
\* converted enemies an iteration leaves are those it found or made, less those
\* eaten.
C12_ConversionIrreversible == ~tick_log.reverted

\* the second iteration found an enemy converted by the first and left it converted
C12_Witness ==
    /\ tick_log.done
    /\ ticks = 2
    /\ tick_log.was_converted > 0
    /\ ~tick_log.reset_ran
    /\ \E i \in DOMAIN world.enemies : world.enemies[i].is_converted

\* C22: after every iteration the player's rect lies entirely within the 800x600
\* screen rectangle.
C22_PlayerInsideArena ==
    (mpc = "events" /\ ticks > 0) => InsideArena(world.player.rect)

\* C23: every enemy the maintenance loop adds lies, when it joins the group, inside
\* the screen and overlaps neither the player nor an enemy already in the group.
C23_ReplacementPlacedSafely == tick_log.spawn_ok

\* an iteration in which the player ate a converted enemy and the maintenance loop
\* added a new one
C23_Witness ==
    /\ tick_log.done
    /\ tick_log.eaten_converted > 0
    /\ tick_log.spawned > 0
    /\ Len(world.enemies) = MinEnemies

\* C25: right after reset_game the player is as a new player, size 50 with a 50x50
\* rect, game_over is false and the world holds 5 foods and 3 unconverted enemies.
C25_ResetRestoresPlayer ==
    (tick_log.done /\ tick_log.reset_ran) =>
        /\ tick_log.after_reset.size = PlayerStartSize
        /\ tick_log.after_reset.w = Player_init.rect.w
        /\ tick_log.after_reset.h = Player_init.rect.h
        /\ ~tick_log.after_reset.game_over
        /\ tick_log.after_reset.foods = StartFoods
        /\ tick_log.after_reset.enemies = StartEnemies
        /\ tick_log.after_reset.unconverted = StartEnemies

\* g.py alone: right after reset_game player.size is 50, game_over is false and
\* the world holds 5 foods and 3 unconverted enemies
ResetRestoresAllButRect ==
    (tick_log.done /\ tick_log.reset_ran) =>
        /\ tick_log.after_reset.size = PlayerStartSize
        /\ ~tick_log.after_reset.game_over
        /\ tick_log.after_reset.foods = StartFoods
        /\ tick_log.after_reset.enemies = StartEnemies
        /\ tick_log.after_reset.unconverted = StartEnemies

\* C26: reset_game does not run in two iterations in a row for one press of button
\* 1: when it ran in the iteration before and runs again, the reports drained in
\* between carried a new press edge of button 1.
C26_OneResetPerPress ==
    (tick_log.done /\ tick_log.reset_ran /\ tick_log.prev_reset) => 1 \in tick_log.edges

\* C28: the food group holds exactly 5 foods after initialize_game, after
\* reset_game and after every iteration; handle_food_collisions adds as many foods
\* as the player ate.
C28_FoodCountIsFive ==
    /\ Len(world.foods) = StartFoods
    /\ tick_log.done =>
         /\ tick_log.after_reset.foods = StartFoods
         /\ tick_log.foods_after = StartFoods

\* the second iteration ran reset_game and then the player ate all five new foods
C28_Witness ==
    /\ tick_log.done
    /\ ticks = 2
    /\ tick_log.reset_ran
    /\ tick_log.foods_kept = 0
    /\ tick_log.foods_after = StartFoods
    /\ world.player.size = PlayerStartSize + StartFoods * GrowStep

\* C29: right after initialize_game and right after reset_game the player's rect
\* overlaps no enemy of the group.
C29_PlayerSpawnedSafely ==
    /\ (ticks = 0 /\ mpc = "events") => PlayerSafe(world)
    /\ (tick_log.done /\ tick_log.reset_ran) => tick_log.after_reset.safe

\* g.py alone: right after initialize_game the player overlaps no enemy
InitialSpawnSafe == (ticks = 0 /\ mpc = "events") => PlayerSafe(world)

\* C21: in an iteration whose eating loop removes a converted enemy that overlaps
\* the player, player.size is larger after the loop than before it.
C21_EatingConvertedGrows ==
    (tick_log.done /\ tick_log.eaten_converted > 0) =>
        tick_log.size_after_eat > tick_log.size_before_eat

(***************************************************************************)
(* Claims about invaders.py (SpecShooter).                                 *)
(***************************************************************************)
\* C2: the input phase of an iteration takes every report that was queued when it
\* started; none of them is still queued after it.
C2_InputPhaseDrainsAll == s_log.done => s_log.stale = 0

\* C5: after the iteration in which lose_life brings lives to 0,
\* Game.is_game_over is true.
C5_GameOverAtZeroLives == s_log.lives_hit_zero => game.is_game_over

\* C6: a round transition (check_round_completion finding no asteroid) leaves the
\* player's lives and the score as they were.
C6_RoundKeepsLivesAndScore == s_log.completions > 0 => s_log.after = s_log.before

\* C7: over an iteration without restart the round index does not decrease, grows
\* by one per round completion below the last index and stays at the last index
\* there; no iteration completes two rounds; a completion refills the asteroids.
C7_RoundIndexClamped ==
    (s_log.done /\ ~s_log.restarted) =>
        /\ game.current_round_index
             = Min(s_log.prev_round + s_log.completions, NumRounds - 1)
        /\ game.current_round_index >= s_log.prev_round
        /\ s_log.completions <= 1
        /\ s_log.completions > 0 => game.asteroids = AsteroidsPerRound

\* a round completed at the last index: the index stayed, the asteroids are back
C7_Witness ==
    /\ s_log.done
    /\ s_log.completions = 1
    /\ s_log.prev_round = NumRounds - 1
    /\ game.current_round_index = NumRounds - 1
    /\ game.asteroids = AsteroidsPerRound

\* C15: once device.read has raised in the read thread, the thread stays ended and
\* reads and queues nothing more, and the main loop goes on: no step after the
\* error ends the program with an exception.
C15_ReadErrorStopsProducerOnly ==
    [][s_reader = "failed" =>
        /\ s_reader' = "failed"
        /\ s_produced' = s_produced
        /\ Len(s_data_queue') <= Len(s_data_queue)
        /\ ~game.crashed /\ ~game'.crashed]_vars

\* device.read raised before any report came; an iteration after the error found
\* the queue empty and its collisions cost the player a life
C15_Witness ==
    /\ s_reader = "failed"
    /\ s_produced = 0
    /\ s_log.done /\ s_log.after_error
    /\ s_data_queue = <<>>
    /\ s_log.lives_at_start = StartLives
    /\ game.player.lives = StartLives - 1
    /\ ~game.crashed

\* C8: an iteration that starts with no life left (Game Over) and decodes a press
\* edge of the restart button (button 2) runs reset_game.
C8_RestartEdgeRestarts ==
    (s_log.done /\ s_log.lives_at_start = 0 /\ s_log.restart_edge) => s_log.restarted

\* C27: the score is 100 times the number of asteroids that bullets have removed
\* since the last reset_game, also when one bullet overlaps several asteroids in
\* the same iteration.
C27_ScoreCountsShotAsteroids == game.score = HitScore * game.shot

\* the score is 100 times the number of bullets that hit: it never exceeds 100 per
\* asteroid shot, and no asteroid is shot while the score is 0
ScoreCountsHittingBullets ==
    /\ game.score <= HitScore * game.shot
    /\ (game.score = 0) <=> (game.shot = 0)

(***************************************************************************)
(* Claims about adjust_zoom of g.py (SpecZoom).                            *)
(***************************************************************************)
Abs(n) == IF n < 0 THEN -n ELSE n

\* the offsets of a rect's center from the center of the arena
OffsetX(r) == CenterX(r) - SCREEN_WIDTH \div 2

OffsetY(r) == CenterY(r) - SCREEN_HEIGHT \div 2

\* offset after = offset before * zoom_factor, within two pixels, where
\* zoom_factor = 0.15 / (pw / SCREEN_WIDTH)
OffsetScaled(before, after, pw) ==
    Abs(after * 100 * pw - before * ZoomTargetPercent * SCREEN_WIDTH) <= 2 * 100 * pw

\* rect a is rect b moved about the arena center by the zoom factor
PositionRescaled(b, a, pw) ==
    /\ OffsetScaled(OffsetX(b), OffsetX(a), pw)
    /\ OffsetScaled(OffsetY(b), OffsetY(a), pw)

\* C24: after adjust_zoom has rescaled, the offset of every entity's center from
\* the arena center is its offset before multiplied by the zoom factor (up to
\* integer rounding).
C24_ZoomRescalesPositions ==
    zoom_case.done =>
        LET b == zoom_case.before
            a == zoom_case.after
            pw == b.player.rect.w
        IN  /\ PositionRescaled(b.player.rect, a.player.rect, pw)
            /\ \A i \in DOMAIN b.foods : PositionRescaled(b.foods[i].rect, a.foods[i].rect, pw)
            /\ \A i \in DOMAIN b.enemies :
                    PositionRescaled(b.enemies[i].rect, a.enemies[i].rect, pw)

\* rect a has the size of rect b scaled by the zoom factor and, within a pixel,
\* the center of rect b
ScaledInPlace(b, a, pw) ==
    /\ a.w = ZoomScale(b.w, pw) /\ a.h = ZoomScale(b.h, pw)
    /\ Abs(CenterX(a) - CenterX(b)) <= 1
    /\ Abs(CenterY(a) - CenterY(b)) <= 1

\* what adjust_zoom does: every size is scaled by the zoom factor, every food and
\* enemy keeps its center, and the player is put on the center of the arena
ZoomScalesSizesInPlace ==
    zoom_case.done =>
        LET b == zoom_case.before
            a == zoom_case.after
            pw == b.player.rect.w
        IN  /\ a.player.rect.w = ZoomScale(pw, pw)
            /\ OffsetX(a.player.rect) = 0 /\ OffsetY(a.player.rect) = 0
            /\ \A i \in DOMAIN b.foods : ScaledInPlace(b.foods[i].rect, a.foods[i].rect, pw)
            /\ \A i \in DOMAIN b.enemies :
                    ScaledInPlace(b.enemies[i].rect, a.enemies[i].rect, pw)

====
